---- MODULE Spec2Model ----
(***************************************************************************)
(* A model of kolibri's two allocation-free rendering helpers:             *)
(*   - WidgetFramebuf (src/src/framebuf.rs): a clipped pixel buffer over   *)
(*     borrowed storage, with its four embedded-graphics draw operations;  *)
(*   - Smartstate / SmartstateProvider (src/src/smartstate.rs): the        *)
(*     per-frame redraw-state cells and the cursor that hands them out.    *)
(*                                                                         *)
(* Integer conventions.  i32 values are modelled at their real width: the  *)
(* helpers I32Sub/I32Add/I32Mul return the wrapped result together with an *)
(* overflow flag.  A usize value u is written as an integer r with         *)
(* u = r when r >= 0 and u = 2^W + r when r < 0 (W the pointer width), so  *)
(* that `v as usize` of a negative i32 v and the additions of small        *)
(* numbers to it are exact; usize is taken wide enough (W = 64) that a     *)
(* product of two u32 fits.  An arithmetic overflow panics when the build  *)
(* has overflow checks (debug profile) and wraps when it has none (release *)
(* profile): every operation takes the profile as the parameter `checks`.  *)
(***************************************************************************)
EXTENDS Integers, Sequences, FiniteSets, TLC

VARIABLES
    overflow_checks, \* the build profile: arithmetic overflow panics (TRUE) or wraps
    storage,    \* the borrowed backing slice: index (0-based) -> colour
    fb,         \* the WidgetFramebuf: live, size, position, len
    call,       \* the last framebuf call: operation, arguments, outcome
    states,     \* SmartstateProvider.states: index (0-based) -> Smartstate
    pos,        \* SmartstateProvider.pos
    handle,     \* the slot whose &mut Smartstate the caller holds, or NoHandle
    last,       \* the last smartstate call: operation, arguments, outcome
    written,    \* history: a cell was written since the last restart_counter
    ui          \* history of the widget traversals: frames, calls, records per slot

vars == <<overflow_checks, storage, fb, call, states, pos, handle, last, written, ui>>
fbVars == <<storage, fb, call>>
ssVars == <<states, pos, handle, last, written, ui>>

(***************************************************************************)
(* Bounds of the model.                                                    *)
(***************************************************************************)
MaxCtorDim == 3     \* widths and heights tried by new/try_new: 0..MaxCtorDim
MaxDim == 2         \* widths and heights of a drawn-on buffer: 0..MaxDim
StorageLen == 4     \* the length of the backing slice
NegSpan == 2        \* coordinates range over -NegSpan..PosSpan
PosSpan == 0
MaxRect == 2        \* widths and heights of a requested rectangle: 0..MaxRect
MaxSeq == 4         \* a colour sequence holds 0..MaxSeq items
MaxPixels == 1      \* draw_iter is given 0..MaxPixels pixels
NumColors == 2      \* fill_solid and clear take a colour of 1..NumColors
N == 2              \* SmartstateProvider<N>: the number of smartstates
MaxSkip == 1        \* skip(n) and offsets: n in 0..MaxSkip, offset in -MaxSkip..MaxSkip
MaxWidgets == 2     \* widgets of a traversal, in their order: 1..MaxWidgets
MaxFrames == 3      \* frames of a run of traversals

(***************************************************************************)
(* i32 arithmetic (framebuf.rs:64-65 computes in i32).                     *)
(***************************************************************************)
I32Max == 2147483647
I32Min == (-I32Max) - 1

\* a - b in i32: the wrapped value and whether the exact result overflowed
I32Sub(a, b) ==
    IF b > 0 /\ a < I32Min + b
    THEN [v |-> (a + I32Max + 1) + ((I32Max - b) + 1), of |-> TRUE]
    ELSE IF b < 0 /\ a > I32Max + b
    THEN [v |-> (a - I32Max - 1) + (-(b + I32Max + 1)), of |-> TRUE]
    ELSE [v |-> a - b, of |-> FALSE]

\* a + b in i32
I32Add(a, b) ==
    IF b > 0 /\ a > I32Max - b
    THEN [v |-> (a - I32Max - 1) + (b - I32Max - 1), of |-> TRUE]
    ELSE IF b < 0 /\ a < I32Min - b
    THEN [v |-> (a + I32Max + 1) + (b + I32Max + 1), of |-> TRUE]
    ELSE [v |-> a + b, of |-> FALSE]

\* a * n in i32 for a small n >= 0, as n wrapping additions
RECURSIVE I32Mul(_, _)
I32Mul(a, n) ==
    IF n = 0 THEN [v |-> 0, of |-> FALSE]
    ELSE LET p == I32Mul(a, n - 1)
             s == I32Add(p.v, a)
         IN  [v |-> s.v, of |-> p.of \/ s.of]

(***************************************************************************)
(* usize arithmetic in the offset representation.                          *)
(***************************************************************************)
\* `v as usize` of an i32 (sign extension): -1 becomes 2^W - 1, written -1
AsUsize(v) == v

\* a + n in usize for a small n >= 0: overflows when it passes 2^W
UsizeAdd(a, n) == [v |-> a + n, of |-> a < 0 /\ a + n >= 0]

\* a < b in usize
UsizeLess(a, b) ==
    \/ a >= 0 /\ b >= 0 /\ a < b
    \/ a < 0 /\ b < 0 /\ a < b
    \/ a >= 0 /\ b < 0

\* the values a Range<usize> a..b yields, in order.  The code only builds
\* ranges whose end is start + n, so a >= 0 > b does not arise.
URange(a, b) ==
    IF UsizeLess(a, b) /\ ((a >= 0) = (b >= 0))
    THEN [k \in 1..(b - a) |-> a + (k - 1)]
    ELSE << >>

\* `u as i32` of a usize: truncation to the low 32 bits
AsI32(u) == u

(***************************************************************************)
(* embedded-graphics geometry used by framebuf.rs.                         *)
(***************************************************************************)
Point(x, y) == [x |-> x, y |-> y]
Size(w, h) == [width |-> w, height |-> h]
Rectangle(top_left, size) == [top_left |-> top_left, size |-> size]

Min(a, b) == IF a < b THEN a ELSE b
Max(a, b) == IF a > b THEN a ELSE b

is_zero_sized(r) == r.size.height = 0 \/ r.size.width = 0

\* Rectangle::bottom_right is None for a zero sized rectangle
HasBottomRight(r) == ~is_zero_sized(r)
bottom_right(r) ==
    Point(r.top_left.x + r.size.width - 1, r.top_left.y + r.size.height - 1)

contains(r, p) ==
    /\ HasBottomRight(r)
    /\ p.x >= r.top_left.x /\ p.x <= bottom_right(r).x
    /\ p.y >= r.top_left.y /\ p.y <= bottom_right(r).y

\* two inclusive ranges share a value
overlaps(lo1, hi1, lo2, hi2) == Max(lo1, lo2) <= Min(hi1, hi2)

RectangleZero == Rectangle(Point(0, 0), Size(0, 0))

with_corners(c1, c2) ==
    Rectangle(Point(Min(c1.x, c2.x), Min(c1.y, c2.y)),
              Size(Max(c1.x, c2.x) - Min(c1.x, c2.x) + 1,
                   Max(c1.y, c2.y) - Min(c1.y, c2.y) + 1))

\* self.intersection(other)
intersection(self, other) ==
    IF HasBottomRight(other) /\ HasBottomRight(self)
    THEN IF /\ overlaps(self.top_left.x, bottom_right(self).x,
                        other.top_left.x, bottom_right(other).x)
            /\ overlaps(self.top_left.y, bottom_right(self).y,
                        other.top_left.y, bottom_right(other).y)
         THEN with_corners(
                  Point(Max(self.top_left.x, other.top_left.x),
                        Max(self.top_left.y, other.top_left.y)),
                  Point(Min(bottom_right(self).x, bottom_right(other).x),
                        Min(bottom_right(self).y, bottom_right(other).y)))
         ELSE RectangleZero
    ELSE IF HasBottomRight(other) /\ ~HasBottomRight(self)
    THEN IF contains(other, self.top_left) THEN self ELSE RectangleZero
    ELSE IF ~HasBottomRight(other) /\ HasBottomRight(self)
    THEN IF contains(self, other.top_left) THEN other ELSE RectangleZero
    ELSE RectangleZero

(***************************************************************************)
(* WidgetFramebuf.                                                         *)
(***************************************************************************)
NoBuf == [live |-> FALSE, size |-> Size(0, 0), position |-> Point(0, 0), len |-> 0]

\* the length of a slice modelled as a function on 0..n-1
SliceLen(s) == Cardinality(DOMAIN s)

\* len = size.width as usize * size.height as usize
BufLen(size) == size.width * size.height

\* a try_new that refuses a slice of exactly len cells
try_new_strict(buf, size, position) ==
    IF BufLen(size) < SliceLen(buf)
    THEN [live |-> TRUE, size |-> size, position |-> position, len |-> BufLen(size)]
    ELSE NoBuf

\* try_new: Some(Self) exactly when len <= buf.len()
try_new(buf, size, position) ==
    IF BufLen(size) <= SliceLen(buf)
    THEN [live |-> TRUE, size |-> size, position |-> position, len |-> BufLen(size)]
    ELSE NoBuf

\* new: the assert!(len <= buf.len()) passes
NewAssertHolds(buf, size) == BufLen(size) <= SliceLen(buf)

new(buf, size, position) ==
    [live |-> TRUE, size |-> size, position |-> position, len |-> BufLen(size)]

bounding_box(f) == Rectangle(f.position, f.size)

\* self.buf[i] = c: an index outside the slice panics
InSlice(buf, i) == i \in DOMAIN buf

(***************************************************************************)
(* draw_iter (framebuf.rs:59-77).  A draw operation returns the slice it   *)
(* leaves and how it ended: "ok" (Ok(())) or "panic".                      *)
(***************************************************************************)
Pixel(point, color) == [point |-> point, color |-> color]

\* an index whose row stride is the height
PixelPosByHeight(f, point) ==
    LET ptx == I32Sub(point.x, f.position.x)
        pty == I32Sub(point.y, f.position.y)
        row == I32Mul(pty.v, f.size.height)
        sum == I32Add(row.v, ptx.v)
    IN  [v |-> sum.v, of |-> ptx.of \/ pty.of \/ row.of \/ sum.of]

\* lines 64-65: pixel.0.sub(self.position), then pt.y * width as i32 + pt.x
PixelPos(f, point) ==
    LET ptx == I32Sub(point.x, f.position.x)
        pty == I32Sub(point.y, f.position.y)
        row == I32Mul(pty.v, f.size.width)
        sum == I32Add(row.v, ptx.v)
    IN  [v |-> sum.v, of |-> ptx.of \/ pty.of \/ row.of \/ sum.of]

\* line 66: the pixel is skipped
PixelSkipped(f, p) == p < 0 \/ p >= f.len

\* the loop body for one pixel, on the running result r; log records what
\* became of each pixel reached: skipped, written at idx, or a panic
DrawPixel(f, r, pixel, checks) ==
    LET p == PixelPos(f, pixel.point) IN
    IF r.res # "ok" THEN r
    ELSE IF checks /\ p.of
    THEN [r EXCEPT !.res = "panic",
                   !.log = Append(r.log, [kind |-> "panic", idx |-> 0])]
    ELSE IF PixelSkipped(f, p.v)
    THEN [r EXCEPT !.log = Append(r.log, [kind |-> "skip", idx |-> 0])]
    ELSE IF ~InSlice(r.buf, p.v)
    THEN [r EXCEPT !.res = "panic",
                   !.log = Append(r.log, [kind |-> "panic", idx |-> 0])]
    ELSE [r EXCEPT !.buf = [r.buf EXCEPT ![p.v] = pixel.color],
                   !.writes = r.writes \cup {p.v},
                   !.log = Append(r.log, [kind |-> "write", idx |-> p.v])]

RECURSIVE DrawPixels(_, _, _, _, _)
DrawPixels(f, r, pixels, k, checks) ==
    IF k > Len(pixels) THEN r
    ELSE DrawPixels(f, DrawPixel(f, r, pixels[k], checks), pixels, k + 1, checks)

draw_iter(f, buf, pixels, checks) ==
    DrawPixels(f, [buf |-> buf, it |-> 0, res |-> "ok", writes |-> {}, log |-> << >>],
               pixels, 1, checks)

(***************************************************************************)
(* fill_contiguous (framebuf.rs:79-125) and fill_solid (127-144).  The     *)
(* running result r holds the slice, the number of items the colour        *)
(* iterator has yielded (it), the indices written, and res: "run" while    *)
(* the loops go on, "ok" after a return, "panic" after a panic.            *)
(***************************************************************************)
\* k calls of color_iter.next() whose results are dropped (lines 96-100,
\* 104-107, 118-121); `for _ in 0..k` does nothing for k <= 0
SkipItems(it, k, n) == IF k <= 0 THEN it ELSE Min(n, it + k)

\* lines 111-112 and 138-139: (y as i32 - position.y) as usize * width as usize
\* + (x as i32 - position.x) as usize
CellPos(f, y, x, checks) ==
    LET ly == AsI32(y) - f.position.y
        lx == AsI32(x) - f.position.x
        exact == ly * f.size.width + lx
    IN  IF ly >= 0 /\ lx >= 0 THEN [ok |-> TRUE, v |-> exact]
        ELSE IF checks THEN [ok |-> FALSE, v |-> 0]
        ELSE [ok |-> TRUE, v |-> exact]

\* lines 108-117: the columns of one row
RECURSIVE ContiguousCols(_, _, _, _, _, _, _)
ContiguousCols(f, colors, y, xs, i, r, checks) ==
    IF r.res # "run" \/ i > Len(xs) THEN r
    ELSE LET p == CellPos(f, y, xs[i], checks) IN
         IF ~p.ok THEN [r EXCEPT !.res = "panic"]
         ELSE IF r.it >= Len(colors) THEN [r EXCEPT !.res = "ok"]
         ELSE IF ~InSlice(r.buf, p.v)
         THEN [r EXCEPT !.it = r.it + 1, !.res = "panic"]
         ELSE ContiguousCols(f, colors, y, xs, i + 1,
                  [r EXCEPT !.it = r.it + 1,
                            !.buf = [r.buf EXCEPT ![p.v] = colors[r.it + 1]],
                            !.writes = r.writes \cup {p.v}],
                  checks)

\* lines 101-122: the rows of the drawable area
RECURSIVE ContiguousRows(_, _, _, _, _, _, _, _, _)
ContiguousRows(f, d, colors, left_skip, right_skip, ys, j, r, checks) ==
    IF r.res # "run" THEN r
    ELSE IF j > Len(ys) THEN [r EXCEPT !.res = "ok"]
    ELSE LET r1 == [r EXCEPT !.it = SkipItems(r.it, left_skip, Len(colors))]
             xstart == AsUsize(d.top_left.x)
             xend == UsizeAdd(xstart, d.size.width)
         IN  IF checks /\ xend.of THEN [r1 EXCEPT !.res = "panic"]
             ELSE LET r2 == ContiguousCols(f, colors, ys[j],
                                URange(xstart, xend.v), 1, r1, checks)
                      r3 == IF r2.res = "run"
                            THEN [r2 EXCEPT !.it = SkipItems(r2.it, right_skip, Len(colors))]
                            ELSE r2
                  IN  ContiguousRows(f, d, colors, left_skip, right_skip,
                                     ys, j + 1, r3, checks)

\* line 88, 89, 90
TopSkip(area, d) == d.top_left.y - area.top_left.y
LeftSkip(area, d) == d.top_left.x - area.top_left.x
\* a fill that drops no item right of the drawable area
RightSkipNone(area, d) == 0
RightSkip(area, d) == area.size.width - (LeftSkip(area, d) + d.size.width)

\* lines 96-100: top_skip rows of area.size.width items each
SkipTopRows(area, d, n) == SkipItems(0, TopSkip(area, d) * area.size.width, n)

\* a fill that does not clip the requested area
drawable_area_unclipped(f, area) == area

\* lines 83 and 129: area.intersection(&self.bounding_box())
drawable_area(f, area) == intersection(area, bounding_box(f))

fill_contiguous(f, buf, area, colors, checks) ==
    LET d == drawable_area(f, area)
        r0 == [buf |-> buf, it |-> 0, res |-> "run", writes |-> {}]
    IN  IF is_zero_sized(d) THEN [r0 EXCEPT !.res = "ok"]
        ELSE LET r1 == [r0 EXCEPT !.it = SkipTopRows(area, d, Len(colors))]
                 ystart == AsUsize(d.top_left.y)
                 yend == UsizeAdd(ystart, d.size.height)
             IN  IF checks /\ yend.of THEN [r1 EXCEPT !.res = "panic"]
                 ELSE ContiguousRows(f, d, colors, LeftSkip(area, d),
                                     RightSkip(area, d), URange(ystart, yend.v),
                                     1, r1, checks)

\* lines 135-141: the columns of one row
RECURSIVE SolidCols(_, _, _, _, _, _, _)
SolidCols(f, color, y, xs, i, r, checks) ==
    IF r.res # "run" \/ i > Len(xs) THEN r
    ELSE LET p == CellPos(f, y, xs[i], checks) IN
         IF ~p.ok \/ ~InSlice(r.buf, p.v) THEN [r EXCEPT !.res = "panic"]
         ELSE SolidCols(f, color, y, xs, i + 1,
                  [r EXCEPT !.buf = [r.buf EXCEPT ![p.v] = color],
                            !.writes = r.writes \cup {p.v}],
                  checks)

\* lines 132-142: the rows of the drawable area
RECURSIVE SolidRows(_, _, _, _, _, _, _)
SolidRows(f, d, color, ys, j, r, checks) ==
    IF r.res # "run" THEN r
    ELSE IF j > Len(ys) THEN [r EXCEPT !.res = "ok"]
    ELSE LET xstart == AsUsize(d.top_left.x)
             xend == UsizeAdd(xstart, d.size.width)
         IN  IF checks /\ xend.of THEN [r EXCEPT !.res = "panic"]
             ELSE SolidRows(f, d, color, ys, j + 1,
                      SolidCols(f, color, ys[j], URange(xstart, xend.v), 1, r, checks),
                      checks)

fill_solid(f, buf, area, color, checks) ==
    LET d == drawable_area(f, area)
        r0 == [buf |-> buf, it |-> 0, res |-> "run", writes |-> {}]
        ystart == AsUsize(d.top_left.y)
        yend == UsizeAdd(ystart, d.size.height)
    IN  IF checks /\ yend.of THEN [r0 EXCEPT !.res = "panic"]
        ELSE SolidRows(f, d, color, URange(ystart, yend.v), 1, r0, checks)

\* a clear that fills the whole slice
clear_whole_slice(f, buf, color) ==
    [buf |-> [i \in DOMAIN buf |-> color], it |-> 0, res |-> "ok",
     writes |-> DOMAIN buf]

\* a clear that writes 0 where a cell already holds the colour
clear_toggling(f, buf, color) ==
    [buf |-> [i \in DOMAIN buf |->
                 IF i >= f.size.width * f.size.height THEN buf[i]
                 ELSE IF buf[i] = color THEN 0 ELSE color],
     it |-> 0, res |-> "ok", writes |-> 0..(f.size.width * f.size.height - 1)]

\* clear (146-149): self.buf[0..(width * height) as usize].fill(color)
clear(f, buf, color) ==
    LET n == f.size.width * f.size.height IN
    IF n > SliceLen(buf)
    THEN [buf |-> buf, it |-> 0, res |-> "panic", writes |-> {}]
    ELSE [buf |-> [i \in DOMAIN buf |-> IF i < n THEN color ELSE buf[i]],
          it |-> 0, res |-> "ok", writes |-> 0..(n - 1)]

(***************************************************************************)
(* The framebuf state machines.  The backing slice starts with a different *)
(* colour in every cell (negative numbers), and the colours drawn are      *)
(* positive: item k of a colour sequence and pixel k of a pixel sequence   *)
(* have colour k, so the slice shows which item went where.                *)
(***************************************************************************)
Coords == (-NegSpan)..PosSpan
Positions == {Point(x, y) : x \in Coords, y \in Coords}
CtorSizes == {Size(w, h) : w \in 0..MaxCtorDim, h \in 0..MaxCtorDim}
BufSizes == {Size(w, h) : w \in 0..MaxDim, h \in 0..MaxDim}
Areas == {Rectangle(Point(x, y), Size(w, h)) :
              x \in Coords, y \in Coords, w \in 0..MaxRect, h \in 0..MaxRect}
PixelCoords == Coords \cup {I32Min, I32Max}
PixelPoints == {Point(x, y) : x \in PixelCoords, y \in PixelCoords}
PixelSeqs == UNION {[1..n -> PixelPoints] : n \in 0..MaxPixels}
PenColors == 1..NumColors
ColorSeq(n) == [k \in 1..n |-> k]
InitStorage == [i \in 0..(StorageLen - 1) |-> -(i + 1)]

NoCall == [op |-> "none"]
\* no widget traversal is modelled
NoUi == [frame |-> 0]
NoHandle == 0 - 1

\* the smartstate variables, idle in the framebuf state machines
SsIdle ==
    /\ states = << >>
    /\ pos = 0
    /\ handle = NoHandle
    /\ last = NoCall
    /\ written = FALSE
    /\ ui = NoUi

\* SpecNew: construction.  Nothing is constructed yet.
InitNew ==
    /\ storage = InitStorage
    /\ fb = NoBuf
    /\ call = NoCall
    /\ overflow_checks \in BOOLEAN
    /\ SsIdle

\* WidgetFramebuf::new(buf, size, position)
New(size, position) ==
    /\ call.op = "none"
    /\ fb' = IF NewAssertHolds(storage, size) THEN new(storage, size, position) ELSE NoBuf
    /\ call' = [op |-> "new", size |-> size, position |-> position,
                res |-> IF NewAssertHolds(storage, size) THEN "ok" ELSE "panic",
                msg |-> IF NewAssertHolds(storage, size) THEN ""
                        ELSE "buf too small for framebuffer"]
    /\ UNCHANGED <<storage, overflow_checks, ssVars>>

\* WidgetFramebuf::try_new(buf, size, position)
TryNew(size, position) ==
    /\ call.op = "none"
    /\ fb' = try_new(storage, size, position)
    /\ call' = [op |-> "try_new", size |-> size, position |-> position,
                res |-> IF try_new(storage, size, position).live THEN "some" ELSE "none",
                msg |-> ""]
    /\ UNCHANGED <<storage, overflow_checks, ssVars>>

NextNew ==
    \/ \E size \in CtorSizes, position \in Positions : New(size, position)
    \/ \E size \in CtorSizes, position \in Positions : TryNew(size, position)

SpecNew == InitNew /\ [][NextNew]_vars

\* The drawing state machines start from a buffer that new() has constructed
\* over the untouched slice, and make one draw call on it.
InitLive ==
    /\ storage = InitStorage
    /\ \E size \in BufSizes, position \in Positions :
           /\ NewAssertHolds(InitStorage, size)
           /\ fb = new(InitStorage, size, position)
    /\ call = NoCall
    /\ overflow_checks \in BOOLEAN
    /\ SsIdle

Fresh == fb.live /\ call.op = "none"

DrawIter(points) ==
    /\ Fresh
    /\ \E r \in {draw_iter(fb, storage,
                            [k \in 1..Len(points) |-> Pixel(points[k], k)],
                            overflow_checks)} :
           /\ storage' = r.buf
           /\ call' = [op |-> "draw_iter",
                       pixels |-> [k \in 1..Len(points) |-> Pixel(points[k], k)],
                       res |-> r.res, writes |-> r.writes, log |-> r.log]
    /\ UNCHANGED <<fb, overflow_checks, ssVars>>

FillContiguous(area, n) ==
    /\ Fresh
    /\ \E r \in {fill_contiguous(fb, storage, area, ColorSeq(n), overflow_checks)} :
           /\ storage' = r.buf
           /\ call' = [op |-> "fill_contiguous", area |-> area, colors |-> ColorSeq(n),
                       res |-> r.res, it |-> r.it, writes |-> r.writes]
    /\ UNCHANGED <<fb, overflow_checks, ssVars>>

FillSolid(area, color) ==
    /\ Fresh
    /\ \E r \in {fill_solid(fb, storage, area, color, overflow_checks)} :
           /\ storage' = r.buf
           /\ call' = [op |-> "fill_solid", area |-> area, color |-> color,
                       res |-> r.res, it |-> r.it, writes |-> r.writes]
    /\ UNCHANGED <<fb, overflow_checks, ssVars>>

\* clear may follow a clear; again tells that the call before it was a
\* clear with the same colour
Clear(color) ==
    /\ fb.live
    /\ call.op = "none" \/ (call.op = "clear" /\ call.res = "ok")
    /\ \E r \in {clear(fb, storage, color)} :
           /\ storage' = r.buf
           /\ call' = [op |-> "clear", color |-> color,
                       res |-> r.res, it |-> r.it, writes |-> r.writes,
                       again |-> (call.op = "clear" /\ call.color = color)]
    /\ UNCHANGED <<fb, overflow_checks, ssVars>>

\* SpecFill: the two rectangle fills
NextFill ==
    \/ Fresh /\ \E area \in Areas, n \in 0..MaxSeq : FillContiguous(area, n)
    \/ Fresh /\ \E area \in Areas, color \in PenColors : FillSolid(area, color)

SpecFill == InitLive /\ [][NextFill]_vars

\* SpecClear: any number of clears
NextClear == \E color \in PenColors : Clear(color)

SpecClear == InitLive /\ [][NextClear]_vars

\* SpecPixels: draw_iter
NextPixels == Fresh /\ \E points \in PixelSeqs : DrawIter(points)

SpecPixels == InitLive /\ [][NextPixels]_vars

\* SpecDraw: the four draw operations of the DrawTarget impl (59-149)
NextDraw ==
    \/ NextFill
    \/ NextPixels
    \/ NextClear

SpecDraw == InitLive /\ [][NextDraw]_vars

(***************************************************************************)
(* Drawable::draw (framebuf.rs:152-165): a buffer drawn into a target.     *)
(* The target here is another WidgetFramebuf, the buffer fb over storage.  *)
(***************************************************************************)
\* the backing slice of the drawn buffer: n cells, cell i holds colour i + 1
SourceCells(n) == [i \in 0..(n - 1) |-> i + 1]

\* self.buf.iter().cloned() (line 162): every cell of the slice, in order
IterCloned(s) == [k \in 1..SliceLen(s) |-> s[k - 1]]

\* lines 160-163: target.fill_contiguous(&Rectangle::new(self.position,
\* self.size), self.buf.iter().cloned())
draw(a, abuf, f, buf, checks) ==
    fill_contiguous(f, buf, Rectangle(a.position, a.size), IterCloned(abuf), checks)

\* the drawn buffer is any buffer new() accepts over a slice of n cells
Draw(size, position, n) ==
    /\ Fresh
    /\ NewAssertHolds(SourceCells(n), size)
    /\ \E a \in {new(SourceCells(n), size, position)} :
       \E r \in {draw(a, SourceCells(n), fb, storage, overflow_checks)} :
           /\ storage' = r.buf
           /\ call' = [op |-> "draw", src |-> a, cells |-> SourceCells(n),
                       area |-> Rectangle(a.position, a.size),
                       colors |-> IterCloned(SourceCells(n)),
                       res |-> r.res, it |-> r.it, writes |-> r.writes]
    /\ UNCHANGED <<fb, overflow_checks, ssVars>>

\* SpecNest: one buffer drawn into another
NextNest ==
    Fresh /\ \E size \in BufSizes, position \in Positions, n \in 0..StorageLen :
                 Draw(size, position, n)

SpecNest == InitLive /\ [][NextNest]_vars

(***************************************************************************)
(* Smartstate (smartstate.rs:197-236).                                     *)
(***************************************************************************)
StateIds == {0, 1}

Smartstate(id, valid) == [id |-> id, valid |-> valid]
SmartstateValues == {Smartstate(id, valid) : id \in StateIds, valid \in BOOLEAN}

empty == Smartstate(0, FALSE)
state(id) == Smartstate(id, TRUE)
set_state(st, id) == [st EXCEPT !.id = id, !.valid = TRUE]
is_empty(st) == ~st.valid
\* an is_state that looks at the id alone
is_state_by_id(st, id) == st.id = id
is_state(st, id) == st.valid /\ st.id = id
\* a force_redraw that forgets the id
force_redraw_reset(st) == Smartstate(0, FALSE)
force_redraw(st) == [st EXCEPT !.valid = FALSE]

\* the equality #[derive(PartialEq)] would give
eq_derived(self, other) == self = other

\* impl PartialEq for Smartstate
eq(self, other) == self.id = other.id /\ self.valid /\ other.valid

(***************************************************************************)
(* Container<T> (smartstate.rs:16-95): an Option<&mut T>.  A container is  *)
(* None or Some(v), v the value of the cell it refers to; an operation     *)
(* that writes returns the container it leaves.                            *)
(***************************************************************************)
None == [some |-> FALSE]
Some(v) == [some |-> TRUE, v |-> v]
Options == {None} \cup {Some(v) : v \in SmartstateValues}

\* Container::empty() and Container::new(inner)
container_empty == None
container_new(inner) == Some(inner)

\* the closures handed to modify: |st| *st = Smartstate::state(id),
\* |st| st.set_state(id), |st| *st = Smartstate::empty(), |st| st.force_redraw()
Modifiers ==
    {[kind |-> k, id |-> id] : k \in {"assign_state", "set_state"}, id \in StateIds}
        \cup {[kind |-> k, id |-> 0] : k \in {"assign_empty", "force_redraw"}}

Apply(m, st) ==
    CASE m.kind = "assign_state" -> state(m.id)
      [] m.kind = "set_state" -> set_state(st, m.id)
      [] m.kind = "assign_empty" -> empty
      [] m.kind = "force_redraw" -> force_redraw(st)

\* modify (51-55): ran tells whether the closure was called
modify(c, m) ==
    IF c.some THEN [c |-> Some(Apply(m, c.v)), ran |-> TRUE]
    ELSE [c |-> c, ran |-> FALSE]

\* clone_inner (62-66)
clone_inner(c) == IF c.some THEN Some(c.v) ELSE None

\* eq_inner (71-77)
eq_inner(c, other) == IF c.some THEN eq(c.v, other) ELSE FALSE

\* an eq_option that takes two absent values for equal
eq_option_none_equal(c, other) ==
    IF c.some /\ other.some THEN eq(c.v, other.v) ELSE ~c.some /\ ~other.some

\* eq_option (89-94)
eq_option(c, other) ==
    IF c.some /\ other.some THEN eq(c.v, other.v) ELSE FALSE

(***************************************************************************)
(* SmartstateProvider<N> (smartstate.rs:256-423).  A provider p is         *)
(* [states, pos]; an operation returns the provider it leaves, res ("ok"   *)
(* or "panic") and, for an accessor, the slot idx of the &mut Smartstate   *)
(* it hands out.                                                           *)
(***************************************************************************)
\* a new that fills the array with state(0)
provider_new_valid == [states |-> [i \in 0..(N - 1) |-> state(0)], pos |-> 0]
provider_new == [states |-> [i \in 0..(N - 1) |-> empty], pos |-> 0]

Panic(p) == [p |-> p, res |-> "panic", idx |-> NoHandle]
Done(p) == [p |-> p, res |-> "ok", idx |-> NoHandle]
Handed(p, i) == [p |-> p, res |-> "ok", idx |-> i]

\* self.states.get_mut(u) is Some for u < N (u a usize)
get_mut(sts, u) == u >= 0 /\ u < SliceLen(sts)

\* a - n in usize for a small n: overflows below 0
UsizeSub(a, n) == [v |-> a - n, of |-> a >= 0 /\ a - n < 0]

\* a restart_counter that also resets every smartstate
restart_counter_reset(p) == Done(provider_new)
\* a restart_counter that leaves the counter where it is
restart_counter_noop(p) == Done(p)
restart_counter(p) == Done([p EXCEPT !.pos = 0])

get_relative(p, offset, checks) ==
    LET i == I32Add(AsI32(p.pos), offset) IN
    IF checks /\ i.of THEN Panic(p)
    ELSE IF get_mut(p.states, AsUsize(i.v)) THEN Handed(p, AsUsize(i.v))
    ELSE Panic(p)

\* a nxt that hands out the last smartstate once the counter has run out
nxt_saturating(p) ==
    IF get_mut(p.states, p.pos) THEN Handed([p EXCEPT !.pos = p.pos + 1], p.pos)
    ELSE Handed(p, N - 1)

\* a nxt that does not advance the counter
nxt_peek(p) == IF get_mut(p.states, p.pos) THEN Handed(p, p.pos) ELSE Panic(p)

\* a nxt that advances the counter before it looks the smartstate up
nxt_advance_first(p) ==
    IF get_mut(p.states, p.pos) THEN Handed([p EXCEPT !.pos = p.pos + 1], p.pos)
    ELSE Panic([p EXCEPT !.pos = p.pos + 1])

nxt(p) ==
    IF get_mut(p.states, p.pos) THEN Handed([p EXCEPT !.pos = p.pos + 1], p.pos)
    ELSE Panic(p)

current(p, checks) ==
    LET i == UsizeSub(p.pos, 1) IN
    IF checks /\ i.of THEN Panic(p)
    ELSE IF get_mut(p.states, i.v) THEN Handed(p, i.v)
    ELSE Panic(p)

\* a prev that hands out the smartstate one before the counter
prev_one_back(p, checks) == current(p, checks)

prev(p, checks) ==
    LET i == UsizeSub(p.pos, 2) IN
    IF checks /\ i.of THEN Panic(p)
    ELSE IF get_mut(p.states, i.v) THEN Handed(p, i.v)
    ELSE Panic(p)

peek(p) == IF get_mut(p.states, p.pos) THEN Handed(p, p.pos) ELSE Panic(p)

\* a + b in usize, either of which may be 2^W + r (r < 0): the wrapped sum
\* and whether the exact sum passed 2^W
UsizeAddWide(a, b) ==
    [v |-> a + b,
     of |-> \/ a < 0 /\ b < 0
            \/ a < 0 /\ b >= 0 /\ a + b >= 0
            \/ a >= 0 /\ b < 0 /\ a + b >= 0]

\* self.pos += n
skip(p, n, checks) ==
    LET s == UsizeAddWide(p.pos, n) IN
    IF checks /\ s.of THEN Panic(p) ELSE Done([p EXCEPT !.pos = s.v])
skip_one(p, checks) == skip(p, 1, checks)

get(p, i) == IF get_mut(p.states, i) THEN Handed(p, i) ELSE Panic(p)

force_redraw_all(p) ==
    Done([p EXCEPT !.states = [i \in DOMAIN p.states |-> force_redraw(p.states[i])]])

\* for i in range { self.states[i].force_redraw() }: is holds the usize
\* values the iterator yields, in order; an index outside the array panics
RECURSIVE force_redraw_range_from(_, _, _)
force_redraw_range_from(p, is, k) ==
    IF k > Len(is) THEN Done(p)
    ELSE IF ~get_mut(p.states, is[k]) THEN Panic(p)
    ELSE force_redraw_range_from(
             [p EXCEPT !.states[is[k]] = force_redraw(p.states[is[k]])], is, k + 1)

force_redraw_range(p, is) == force_redraw_range_from(p, is, 1)

\* a force_redraw_from that spares the cell at the given position
force_redraw_from_next(p, from) == force_redraw_range(p, URange(from + 1, N))
force_redraw_from(p, from) == force_redraw_range(p, URange(from, N))

force_redraw_from_offset(p, offset, checks) ==
    LET i == I32Add(AsI32(p.pos), offset) IN
    IF checks /\ i.of THEN Panic(p)
    ELSE force_redraw_range(p, URange(AsUsize(i.v), N))

\* a force_redraw_remaining that starts one cell after the counter
force_redraw_remaining_after(p, checks) == force_redraw_from_offset(p, 1, checks)
force_redraw_remaining(p, checks) == force_redraw_from_offset(p, 0, checks)

\* the range is mapped through |i| self.pos as i32 + i, then indexed `as usize`
RECURSIVE force_redraw_range_relative_from(_, _, _, _)
force_redraw_range_relative_from(p, offsets, k, checks) ==
    IF k > Len(offsets) THEN Done(p)
    ELSE LET i == I32Add(AsI32(p.pos), offsets[k]) IN
         IF checks /\ i.of THEN Panic(p)
         ELSE IF ~get_mut(p.states, AsUsize(i.v)) THEN Panic(p)
         ELSE force_redraw_range_relative_from(
                  [p EXCEPT !.states[i.v] = force_redraw(p.states[i.v])],
                  offsets, k + 1, checks)

force_redraw_range_relative(p, offsets, checks) ==
    force_redraw_range_relative_from(p, offsets, 1, checks)

(***************************************************************************)
(* The smartstate state machine.  A caller holds at most one               *)
(* &mut Smartstate at a time (handle) and works on the cell through it;    *)
(* any call on the provider ends that borrow.  A panic ends the program.   *)
(***************************************************************************)
FbIdle ==
    /\ storage = << >>
    /\ fb = NoBuf
    /\ call = NoCall

InitSs ==
    /\ states = provider_new.states
    /\ pos = provider_new.pos
    /\ handle = NoHandle
    /\ last = [op |-> "new", res |-> "ok", at |-> 0, arg |-> 0, out |-> FALSE]
    /\ written = FALSE
    /\ ui = NoUi
    /\ overflow_checks \in BOOLEAN
    /\ FbIdle

Provider == [states |-> states, pos |-> pos]
Running == last.res = "ok"

\* a call on the provider: r is its result, arg what it was given
ProviderCall(op, arg, rs) ==
    /\ Running
    /\ \E r \in rs :
           /\ states' = r.p.states
           /\ pos' = r.p.pos
           /\ handle' = r.idx
           /\ last' = [op |-> op, res |-> r.res, at |-> pos, arg |-> arg, out |-> FALSE]
           /\ written' = IF op = "restart_counter" THEN FALSE
                         ELSE written \/ r.p.states # states
    /\ UNCHANGED <<overflow_checks, fbVars, ui>>

RestartCounter == ProviderCall("restart_counter", 0, {restart_counter(Provider)})
Nxt == ProviderCall("nxt", 0, {nxt(Provider)})
Current == ProviderCall("current", 0, {current(Provider, overflow_checks)})
Prev == ProviderCall("prev", 0, {prev(Provider, overflow_checks)})
Peek == ProviderCall("peek", 0, {peek(Provider)})
GetRelative(offset) ==
    ProviderCall("get_relative", offset, {get_relative(Provider, offset, overflow_checks)})
Get(i) == ProviderCall("get", i, {get(Provider, i)})
\* the counter is capped at N + MaxSkip
Skip(n) ==
    pos + n <= N + MaxSkip /\ ProviderCall("skip", n, {skip(Provider, n, overflow_checks)})
SkipOne ==
    pos + 1 <= N + MaxSkip /\ ProviderCall("skip_one", 0, {skip_one(Provider, overflow_checks)})
ForceRedrawAll == ProviderCall("force_redraw_all", 0, {force_redraw_all(Provider)})
ForceRedrawRemaining ==
    ProviderCall("force_redraw_remaining", 0,
                 {force_redraw_remaining(Provider, overflow_checks)})
ForceRedrawFromOffset(offset) ==
    ProviderCall("force_redraw_from_offset", offset,
                 {force_redraw_from_offset(Provider, offset, overflow_checks)})
ForceRedrawFrom(from) ==
    ProviderCall("force_redraw_from", from, {force_redraw_from(Provider, from)})
ForceRedrawRange(lo, hi) ==
    ProviderCall("force_redraw_range", <<lo, hi>>,
                 {force_redraw_range(Provider, URange(lo, hi))})
ForceRedrawRangeRelative(lo, hi) ==
    ProviderCall("force_redraw_range_relative", <<lo, hi>>,
                 {force_redraw_range_relative(Provider,
                      [k \in 1..(hi - lo) |-> lo + (k - 1)], overflow_checks)})

\* a write to the borrowed cell
CellCall(op, arg, st) ==
    /\ Running
    /\ handle # NoHandle
    /\ states' = [states EXCEPT ![handle] = st]
    /\ last' = [op |-> op, res |-> "ok", at |-> pos, arg |-> arg, out |-> FALSE]
    /\ written' = TRUE
    /\ UNCHANGED <<pos, handle, overflow_checks, fbVars, ui>>

\* st.set_state(id)
SetState(id) == handle # NoHandle /\ CellCall("set_state", id, set_state(states[handle], id))
\* *st = Smartstate::state(id)
AssignState(id) == CellCall("assign_state", id, state(id))
\* *st = Smartstate::empty()
AssignEmpty == CellCall("assign_empty", 0, empty)
\* st.force_redraw()
ForceRedraw == handle # NoHandle /\ CellCall("force_redraw", 0, force_redraw(states[handle]))

\* a query of the borrowed cell: out is its answer
CellQuery(op, arg, out) ==
    /\ Running
    /\ handle # NoHandle
    /\ last' = [op |-> op, res |-> "ok", at |-> pos, arg |-> arg, out |-> out]
    /\ UNCHANGED <<states, pos, handle, written, overflow_checks, fbVars, ui>>

\* *st == other
Eq(other) == handle # NoHandle /\ CellQuery("eq", other, eq(states[handle], other))
\* st.is_empty()
IsEmpty == handle # NoHandle /\ CellQuery("is_empty", 0, is_empty(states[handle]))
\* st.is_state(id)
IsState(id) == handle # NoHandle /\ CellQuery("is_state", id, is_state(states[handle], id))

\* The container a widget holds: Container::new(st) over the borrowed cell,
\* Container::empty() when the widget was given none
TheContainer == IF handle = NoHandle THEN container_empty ELSE container_new(states[handle])

\* container.modify(m)
Modify(m) ==
    /\ Running
    /\ \E r \in {modify(TheContainer, m)} :
           /\ states' = IF r.c.some THEN [states EXCEPT ![handle] = r.c.v] ELSE states
           /\ last' = [op |-> "modify", res |-> "ok", at |-> pos, arg |-> m, out |-> r.ran]
           /\ written' = (written \/ r.ran)
    /\ UNCHANGED <<pos, handle, overflow_checks, fbVars, ui>>

\* a call on the container that only reads: out is what it returns
ContainerQuery(op, arg, out) ==
    /\ Running
    /\ last' = [op |-> op, res |-> "ok", at |-> pos, arg |-> arg, out |-> out]
    /\ UNCHANGED <<states, pos, handle, written, overflow_checks, fbVars, ui>>

CloneInner == ContainerQuery("clone_inner", 0, clone_inner(TheContainer))
EqInner(other) == ContainerQuery("eq_inner", other, eq_inner(TheContainer, other))
EqOption(other) == ContainerQuery("eq_option", other, eq_option(TheContainer, other))

Offsets == (-MaxSkip)..MaxSkip
Slots == 0..N

NextSs ==
    \/ RestartCounter
    \/ Nxt
    \/ Current
    \/ Prev
    \/ Peek
    \/ \E offset \in Offsets : GetRelative(offset)
    \/ \E i \in Slots : Get(i)
    \/ \E n \in 0..MaxSkip : Skip(n)
    \/ SkipOne
    \/ ForceRedrawAll
    \/ ForceRedrawRemaining
    \/ \E offset \in Offsets : ForceRedrawFromOffset(offset)
    \/ \E from \in Slots : ForceRedrawFrom(from)
    \/ \E lo \in Slots, hi \in Slots : ForceRedrawRange(lo, hi)
    \/ \E lo \in Offsets, hi \in Offsets : ForceRedrawRangeRelative(lo, hi)
    \/ \E id \in StateIds : SetState(id)
    \/ \E id \in StateIds : AssignState(id)
    \/ AssignEmpty
    \/ ForceRedraw
    \/ \E other \in SmartstateValues : Eq(other)
    \/ IsEmpty
    \/ \E id \in StateIds : IsState(id)

SpecSs == InitSs /\ [][NextSs]_vars

\* SpecFrame: frames that move the counter by nxt() alone, so that the
\* counter is the number of nxt() calls since the last restart_counter()
NextFrame ==
    \/ RestartCounter
    \/ Nxt
    \/ Current
    \/ Prev
    \/ \E id \in StateIds : SetState(id)
    \/ \E id \in StateIds : AssignState(id)
    \/ AssignEmpty
    \/ ForceRedraw

SpecFrame == InitSs /\ [][NextFrame]_vars

\* SpecContainer: widgets that hold a Container over the cell nxt() handed
\* out, or an empty one after restart_counter()
NextContainer ==
    \/ RestartCounter
    \/ Nxt
    \/ \E m \in Modifiers : Modify(m)
    \/ CloneInner
    \/ \E other \in SmartstateValues : EqInner(other)
    \/ \E other \in Options : EqOption(other)

SpecContainer == InitSs /\ [][NextContainer]_vars

(***************************************************************************)
(* Widget traversals.  A frame calls restart_counter() and then lets the   *)
(* widgets act in their order.  A widget that tracks its state draws as    *)
(* the Smartstate doc example does (smartstate.rs:159-188) on the cell     *)
(* nxt() hands it: prev = clone_inner(), modify(|st| *st = state(id)),     *)
(* eq_option(&prev).  A widget that opts out calls skip(n); a widget may   *)
(* be absent from a frame; force_redraw_remaining() may be called between  *)
(* two widgets.  ui records, for this frame (cur) and the one before       *)
(* (prv), what each widget did, and for each slot the widget that wrote it *)
(* last (owner) and whether an invalidation was requested for it since     *)
(* (inval).                                                                *)
(***************************************************************************)
Widgets == 1..MaxWidgets
NoWidget == 0

Did(mode, n, slot, id) == [mode |-> mode, n |-> n, slot |-> slot, id |-> id]
NotYet == Did("none", 0, NoHandle, 0)

InitUi ==
    /\ states = provider_new.states
    /\ pos = provider_new.pos
    /\ handle = NoHandle
    /\ last = [op |-> "new", res |-> "ok", at |-> 0, arg |-> 0, out |-> FALSE]
    /\ written = FALSE
    /\ ui = [frame |-> 0, w |-> 1,
             cur |-> [k \in Widgets |-> NotYet],
             prv |-> [k \in Widgets |-> NotYet],
             owner |-> [i \in 0..(N - 1) |-> NoWidget],
             inval |-> [i \in 0..(N - 1) |-> FALSE],
             invAt |-> NoHandle]
    /\ overflow_checks \in BOOLEAN
    /\ FbIdle

InFrame == Running /\ ui.frame >= 1
Turn == InFrame /\ ui.w <= MaxWidgets

\* a frame begins once the frame before it has come to its end
BeginFrame ==
    /\ Running
    /\ ui.frame < MaxFrames
    /\ ui.frame = 0 \/ ui.w > MaxWidgets
    /\ \E r \in {restart_counter(Provider)} :
           /\ states' = r.p.states
           /\ pos' = r.p.pos
           /\ last' = [op |-> "restart_counter", res |-> r.res, at |-> pos,
                       arg |-> 0, out |-> FALSE]
    /\ handle' = NoHandle
    /\ written' = FALSE
    /\ ui' = [ui EXCEPT !.frame = ui.frame + 1, !.w = 1,
                        !.prv = ui.cur, !.cur = [k \in Widgets |-> NotYet],
                        !.invAt = NoHandle]
    /\ UNCHANGED <<overflow_checks, fbVars>>

\* the doc example's draw on the cell st = nxt(): same is what
\* eq_option(&prev) returns, cell the value the cell is left with
draw_smartstate(st, id) ==
    LET smartstate == container_new(st)
        before == clone_inner(smartstate)
        after == modify(smartstate, [kind |-> "assign_state", id |-> id])
    IN  [cell |-> after.c.v, same |-> eq_option(after.c, before)]

\* the widget whose turn it is draws with the id it has chosen
WidgetDraw(id) ==
    /\ Turn
    /\ \E r \in {nxt(Provider)} :
           IF r.res = "panic"
           THEN /\ last' = [op |-> "draw", res |-> "panic", at |-> pos, arg |-> id,
                            out |-> FALSE, w |-> ui.w, slot |-> NoHandle,
                            by |-> NoWidget, inv |-> FALSE]
                /\ UNCHANGED <<states, pos, written, ui>>
           ELSE \E d \in {draw_smartstate(r.p.states[r.idx], id)} :
                /\ states' = [r.p.states EXCEPT ![r.idx] = d.cell]
                /\ pos' = r.p.pos
                /\ last' = [op |-> "draw", res |-> "ok", at |-> pos, arg |-> id,
                            out |-> d.same, w |-> ui.w, slot |-> r.idx,
                            by |-> ui.owner[r.idx], inv |-> ui.inval[r.idx]]
                /\ written' = TRUE
                /\ ui' = [ui EXCEPT !.cur[ui.w] = Did("draw", 0, r.idx, id),
                                    !.w = ui.w + 1,
                                    !.owner[r.idx] = ui.w,
                                    !.inval[r.idx] = FALSE]
    /\ handle' = NoHandle
    /\ UNCHANGED <<overflow_checks, fbVars>>

\* the widget whose turn it is opts out of tracking and reserves n slots
WidgetSkip(n) ==
    /\ Turn
    /\ \E r \in {skip(Provider, n, overflow_checks)} :
           /\ states' = r.p.states
           /\ pos' = r.p.pos
           /\ last' = [op |-> "skip", res |-> r.res, at |-> pos, arg |-> n, out |-> FALSE]
           /\ ui' = IF r.res = "ok"
                    THEN [ui EXCEPT !.cur[ui.w] = Did("skip", n, NoHandle, 0),
                                    !.w = ui.w + 1]
                    ELSE ui
    /\ handle' = NoHandle
    /\ UNCHANGED <<written, overflow_checks, fbVars>>

\* the widget whose turn it is is not part of this frame: it makes no call
WidgetAbsent ==
    /\ Turn
    /\ ui' = [ui EXCEPT !.cur[ui.w] = Did("absent", 0, NoHandle, 0), !.w = ui.w + 1]
    /\ last' = [op |-> "absent", res |-> "ok", at |-> pos, arg |-> 0, out |-> FALSE]
    /\ UNCHANGED <<states, pos, handle, written, overflow_checks, fbVars>>

\* force_redraw_remaining() between two widgets, at most once in a frame
InvalidateRemaining ==
    /\ InFrame
    /\ ui.invAt = NoHandle
    /\ \E r \in {force_redraw_remaining(Provider, overflow_checks)} :
           /\ states' = r.p.states
           /\ pos' = r.p.pos
           /\ last' = [op |-> "force_redraw_remaining", res |-> r.res, at |-> pos,
                       arg |-> 0, out |-> FALSE]
           /\ written' = (written \/ r.p.states # states)
           /\ ui' = IF r.res = "ok"
                    THEN [ui EXCEPT !.invAt = pos,
                                    !.inval = [i \in 0..(N - 1) |-> ui.inval[i] \/ i >= pos]]
                    ELSE ui
    /\ handle' = NoHandle
    /\ UNCHANGED <<overflow_checks, fbVars>>

NextUi ==
    \/ BeginFrame
    \/ \E id \in StateIds : WidgetDraw(id)
    \/ \E n \in 0..MaxSkip : WidgetSkip(n)
    \/ WidgetAbsent
    \/ InvalidateRemaining

SpecUi == InitUi /\ [][NextUi]_vars

\* usize::MAX, in the representation of AsUsize
UsizeMax == AsUsize(0 - 1)

\* skip(usize::MAX): from 0 the sum does not overflow, from a counter above 0
\* it does
SkipMax ==
    pos >= 0 /\ ProviderCall("skip", UsizeMax, {skip(Provider, UsizeMax, overflow_checks)})

RelativeOffsets == (((-MaxSkip) - 1)..MaxSkip) \cup {I32Min, I32Max}
AbsoluteSlots == Slots \cup {UsizeMax}

\* SpecSeek: the counter moved by nxt() and skip(), and the accessors that
\* look up a cell by an index
NextSeek ==
    \/ RestartCounter
    \/ Nxt
    \/ \E n \in 0..MaxSkip : Skip(n)
    \/ SkipMax
    \/ Current
    \/ Prev
    \/ Peek
    \/ \E offset \in RelativeOffsets : GetRelative(offset)
    \/ \E i \in AbsoluteSlots : Get(i)

SpecSeek == InitSs /\ [][NextSeek]_vars

(***************************************************************************)
(* What the specification says, in its own terms: parent-space geometry    *)
(* with unbounded integers.  A number that may not fit 32 bits is kept as  *)
(* q * Radix + r with 0 <= r < Radix.                                      *)
(***************************************************************************)
Radix == 256 * 256
Big(a) == [q |-> a \div Radix, r |-> a % Radix]
BigNorm(q, r) == [q |-> q + (r \div Radix), r |-> r % Radix]
BigSub(a, b) == BigNorm(a.q - b.q, a.r - b.r)
BigAdd(a, b) == BigNorm(a.q + b.q, a.r + b.r)
BigTimes(a, n) == BigNorm(a.q * n, a.r * n)

\* y_local * width + x_local of a point, exactly
ExactIndex(f, point) ==
    BigAdd(BigTimes(BigSub(Big(point.y), Big(f.position.y)), f.size.width),
           BigSub(Big(point.x), Big(f.position.x)))
ExactInRange(f, point) ==
    ExactIndex(f, point).q = 0 /\ ExactIndex(f, point).r < f.len

\* the point (x, y) lies in rectangle r
InRect(x, y, r) ==
    /\ x >= r.top_left.x /\ x < r.top_left.x + r.size.width
    /\ y >= r.top_left.y /\ y < r.top_left.y + r.size.height

\* the parent-space coordinate of backing cell i of buffer f (i < f.len)
CellX(f, i) == f.position.x + (i % f.size.width)
CellY(f, i) == f.position.y + (i \div f.size.width)

\* the backing cells whose coordinate lies in intersection(area, bounding box)
ClipCells(f, area) == {i \in 0..(f.len - 1) : InRect(CellX(f, i), CellY(f, i), area)}

\* the cells of the slice whose value the call changed
Changed == {i \in DOMAIN storage : storage[i] # InitStorage[i]}

(***************************************************************************)
(* C1.  draw_iter never writes to a linear index outside                   *)
(* [0, size.width * size.height), and a pixel whose index                  *)
(* y_local * width + x_local falls outside that range is discarded without *)
(* error or abort and leaves every cell unchanged.                         *)
(***************************************************************************)
\* every write of the call went to an index below len
C1_WritesInRange ==
    call.op = "draw_iter" =>
        /\ call.writes \subseteq 0..(fb.len - 1)
        /\ \A k \in DOMAIN call.log :
               call.log[k].kind = "write" => call.log[k].idx \in 0..(fb.len - 1)
        /\ Changed \subseteq call.writes

\* the claim: besides, every pixel with an out-of-range index is skipped
C1_OutOfRangeDiscarded ==
    call.op = "draw_iter" =>
        /\ C1_WritesInRange
        /\ Len(call.log) = Len(call.pixels)
        /\ \A k \in DOMAIN call.pixels :
               ~ExactInRange(fb, call.pixels[k].point) => call.log[k].kind = "skip"

\* the same for the pixels whose coordinates are not extreme: there no i32
\* operation overflows
NearPixels == \A k \in DOMAIN call.pixels :
                  call.pixels[k].point.x \in Coords /\ call.pixels[k].point.y \in Coords
C1_NearOutOfRangeDiscarded ==
    (call.op = "draw_iter" /\ NearPixels) =>
        /\ call.res = "ok"
        /\ Len(call.log) = Len(call.pixels)
        /\ \A k \in DOMAIN call.pixels :
               ~ExactInRange(fb, call.pixels[k].point) => call.log[k].kind = "skip"

(***************************************************************************)
(* C2.  fill_solid and fill_contiguous modify only backing cells whose     *)
(* parent-space coordinate lies in intersection(requested area, bounding   *)
(* box); every other cell of the backing storage keeps its value.          *)
(***************************************************************************)
C2_FillsStayInIntersection ==
    call.op \in {"fill_solid", "fill_contiguous"} =>
        /\ call.writes \subseteq ClipCells(fb, call.area)
        /\ Changed \subseteq ClipCells(fb, call.area)

\* a fill_solid clipped on the buffer's edge: part of the buffer is filled,
\* part of it is not, and the rectangle reaches outside the buffer
C2_Witness ==
    /\ call.op = "fill_solid" /\ call.res = "ok"
    /\ Changed # {}
    /\ Changed # 0..(fb.len - 1)
    /\ Changed = ClipCells(fb, call.area)
    /\ call.area.size.width * call.area.size.height > Cardinality(Changed)

(***************************************************************************)
(* C3.  fill_contiguous consumes zero items when the rectangle's           *)
(* intersection with the bounding box is empty, and otherwise exactly      *)
(* rectangle.width * rectangle.height items (fewer only when the source is *)
(* shorter), also when the rectangle extends below or right of the buffer. *)
(***************************************************************************)
\* the extent of the overlap of area and bounding box along each axis
OverlapLeft(f, area) == Max(f.position.x, area.top_left.x)
OverlapTop(f, area) == Max(f.position.y, area.top_left.y)
OverlapWidth(f, area) ==
    Min(f.position.x + f.size.width, area.top_left.x + area.size.width)
        - OverlapLeft(f, area)
OverlapHeight(f, area) ==
    Min(f.position.y + f.size.height, area.top_left.y + area.size.height)
        - OverlapTop(f, area)
IntersectionEmpty(f, area) == OverlapWidth(f, area) <= 0 \/ OverlapHeight(f, area) <= 0

RowsThroughIntersection(f, area) ==
    (OverlapTop(f, area) - area.top_left.y) + OverlapHeight(f, area)

\* a range start..start+n of the intersection that does not run from a
\* negative coordinate up to 0 or beyond
RangeClear(start, n) == start >= 0 \/ start + n < 0
IntersectionClear(f, area) ==
    /\ RangeClear(OverlapLeft(f, area), OverlapWidth(f, area))
    /\ RangeClear(OverlapTop(f, area), OverlapHeight(f, area))

ItemAt(f, area, i) ==
    (CellY(f, i) - area.top_left.y) * area.size.width
        + (CellX(f, i) - area.top_left.x)

\* the claim as made (item k of the sequence has colour k + 1)
C4_CellsHoldRowMajorItems ==
    (/\ call.op = "fill_contiguous"
     /\ ~IntersectionEmpty(fb, call.area)
     /\ Len(call.colors) >= call.area.size.width * call.area.size.height)
    => /\ call.res = "ok"
       /\ \A i \in ClipCells(fb, call.area) :
              storage[i] = ItemAt(fb, call.area, i) + 1

\* the same where no range of the intersection runs from a negative
\* coordinate to 0 or beyond
C4_ClearCellsHoldRowMajorItems ==
    (/\ call.op = "fill_contiguous"
     /\ ~IntersectionEmpty(fb, call.area)
     /\ IntersectionClear(fb, call.area)
     /\ Len(call.colors) >= call.area.size.width * RowsThroughIntersection(fb, call.area))
    => /\ call.res = "ok"
       /\ \A i \in ClipCells(fb, call.area) :
              storage[i] = ItemAt(fb, call.area, i) + 1

(***************************************************************************)
(* C5.  Constructing a buffer succeeds if and only if                      *)
(* size.width * size.height <= storage.length: then both variants yield a  *)
(* buffer with len = width * height; otherwise try_new returns None and    *)
(* new panics with "buf too small for framebuffer".  Hence every buffer    *)
(* has len <= storage.length.                                              *)
(***************************************************************************)
Fits(size) == size.width * size.height <= StorageLen

C5_ConstructionIffFits ==
    /\ call.op \in {"new", "try_new"} =>
           /\ fb.live <=> Fits(call.size)
           /\ fb.live =>
                  /\ fb.len = call.size.width * call.size.height
                  /\ fb.size = call.size /\ fb.position = call.position
                  /\ call.res = IF call.op = "new" THEN "ok" ELSE "some"
           /\ ~fb.live =>
                  /\ call.res = IF call.op = "new" THEN "panic" ELSE "none"
                  /\ call.op = "new" => call.msg = "buf too small for framebuffer"
    /\ fb.live => fb.len <= StorageLen /\ StorageLen = SliceLen(storage)

\* try_new refused a size one row too tall for the slice
C5_Witness ==
    /\ call.op = "try_new" /\ call.res = "none" /\ ~fb.live
    /\ call.size.width * (call.size.height - 1) <= StorageLen

(***************************************************************************)
(* C6.  Two cells compare equal if and only if both are valid and hold the *)
(* same id: state(a) == state(a), state(a) != state(b) for a # b,          *)
(* empty() != state(k) for every k, k = 0 included, and an invalid cell    *)
(* equals no cell, not another invalid cell and not itself.  The cell      *)
(* compared is the borrowed one, the other operand is last.arg.            *)
(***************************************************************************)
C6_EqualIffBothValidSameId ==
    last.op = "eq" =>
        LET self == states[handle]
            other == last.arg
        IN  /\ last.out <=> (self.valid /\ other.valid /\ self.id = other.id)
            /\ \A a \in StateIds : self = state(a) /\ other = state(a) => last.out
            /\ \A a, b \in StateIds :
                   a # b /\ self = state(a) /\ other = state(b) => ~last.out
            /\ \A k \in StateIds :
                   (self = empty /\ other = state(k)) \/ (self = state(k) /\ other = empty)
                       => ~last.out
            /\ ~self.valid \/ ~other.valid => ~last.out
            /\ ~self.valid /\ other = self => ~last.out

\* an empty cell is compared with state(0), whose id it shares
C6_Witness ==
    /\ last.op = "eq"
    /\ states[handle] = empty
    /\ last.arg = state(0)
    /\ ~last.out

(***************************************************************************)
(* C7.  From counter 0, nxt() succeeds exactly N times and the (N+1)th     *)
(* call panics; current() before any nxt() in the frame panics; prev()     *)
(* before two nxt() calls in the frame panics.  A panicking call hands out *)
(* no cell.  last.at is the counter at the call: the number of nxt() calls *)
(* made so far in the frame.                                               *)
(***************************************************************************)
C7_MisuseAborts ==
    /\ last.op = "nxt" =>
           /\ last.res = "ok" <=> last.at < N
           /\ last.res = "ok" => handle = last.at /\ pos = last.at + 1
    /\ last.op = "current" /\ last.at = 0 => last.res = "panic"
    /\ last.op = "prev" /\ last.at < 2 => last.res = "panic"
    /\ last.op \in {"nxt", "current", "prev"} /\ last.res = "panic" =>
           handle = NoHandle /\ pos = last.at

\* the (N+1)th nxt() of a frame
C7_Witness ==
    /\ last.op = "nxt"
    /\ last.at = N
    /\ last.res = "panic"

(***************************************************************************)
(* C8.  The counter stays in [0, N] in every reachable state: no sequence  *)
(* of calls that does not panic leaves it above N.                         *)
(***************************************************************************)
C8_CursorWithinCapacity == last.res = "ok" => pos \in 0..N

(***************************************************************************)
(* C9.  Cell contents persist across frames.  restart_counter only sets    *)
(* the counter to 0, and it, nxt, current, prev, peek, get_relative, get,  *)
(* skip and skip_one change no cell; a write through the borrowed cell     *)
(* (set_state, assignment, force_redraw) puts exactly the written value in *)
(* that slot and changes no other slot.  So what was written to slot i in  *)
(* one frame is what slot i holds when it is borrowed in the next.         *)
(***************************************************************************)
Accessors ==
    {"restart_counter", "nxt", "current", "prev", "peek", "get_relative", "get",
     "skip", "skip_one"}

WrittenValue ==
    CASE last'.op = "set_state" -> Smartstate(last'.arg, TRUE)
      [] last'.op = "assign_state" -> Smartstate(last'.arg, TRUE)
      [] last'.op = "assign_empty" -> Smartstate(0, FALSE)
      [] last'.op = "force_redraw" -> Smartstate(states[handle].id, FALSE)

C9_CellsPersist ==
    [][/\ last'.op \in Accessors => states' = states
       /\ last'.op = "restart_counter" => pos' = 0 /\ last'.res = "ok"
       /\ last'.op \in {"set_state", "assign_state", "assign_empty", "force_redraw"} =>
              /\ states'[handle] = WrittenValue
              /\ \A i \in DOMAIN states : i # handle => states'[i] = states[i]
              /\ DOMAIN states' = DOMAIN states
              /\ handle' = handle /\ pos' = pos]_vars

\* nxt() hands out a cell that holds state(1) and nothing was written since
\* the last restart_counter: the value comes from an earlier frame
C9_Witness ==
    /\ last.op = "nxt"
    /\ last.res = "ok"
    /\ ~written
    /\ states[handle] = state(1)

(***************************************************************************)
(* C10.  After force_redraw_all every one of the N cells reports invalid,  *)
(* whatever its id or validity was: is_empty is true, is_state(x) is false *)
(* for every x, and a comparison with any cell reports a change.  The      *)
(* counter and the stored ids are unchanged.                               *)
(***************************************************************************)
C10_InvalidateAll ==
    [][last'.op = "force_redraw_all" =>
           /\ last'.res = "ok"
           /\ pos' = pos
           /\ DOMAIN states' = 0..(N - 1)
           /\ \A i \in 0..(N - 1) :
                  /\ is_empty(states'[i])
                  /\ \A x \in StateIds : ~is_state(states'[i], x)
                  /\ \A c \in SmartstateValues \cup {states[i]} :
                         ~eq(states'[i], c) /\ ~eq(c, states'[i])
                  /\ states'[i].id = states[i].id]_vars

\* the cursor is inside a frame; one invalidated cell keeps the id 1 and
\* another the id 0
C10_Witness ==
    /\ last.op = "force_redraw_all"
    /\ pos > 0
    /\ \E i, j \in DOMAIN states : states[i].id = 1 /\ states[j].id = 0
    /\ \A i \in DOMAIN states : ~states[i].valid

(***************************************************************************)
(* C11.  fill_solid writes the given colour into every cell of             *)
(* intersection(requested area, bounding box), for every buffer position,  *)
(* negative ones included, and every rectangle; an empty intersection      *)
(* writes nothing.                                                         *)
(***************************************************************************)
C11_SolidFillsIntersection ==
    call.op = "fill_solid" =>
        /\ call.res = "ok"
        /\ \A i \in ClipCells(fb, call.area) : storage[i] = call.color
        /\ IntersectionEmpty(fb, call.area) => Changed = {}

\* the same where no range of the drawable area (which may be a zero sized
\* rectangle at a negative corner) runs from a negative coordinate to 0 or
\* beyond
DrawableClear(f, area) ==
    LET d == drawable_area(f, area) IN
    /\ RangeClear(d.top_left.x, d.size.width)
    /\ RangeClear(d.top_left.y, d.size.height)

C11_ClearSolidFillsIntersection ==
    (call.op = "fill_solid" /\ DrawableClear(fb, call.area)) =>
        /\ call.res = "ok"
        /\ \A i \in ClipCells(fb, call.area) : storage[i] = call.color
        /\ Changed = ClipCells(fb, call.area)

(***************************************************************************)
(* C12.  If the colour sequence runs out before the intersection is        *)
(* completely filled, fill_contiguous stops writing there and still        *)
(* returns Ok; the cells written hold the first items of the sequence in   *)
(* row-major order and every cell not written keeps its value.             *)
(***************************************************************************)
\* the sequence has no item for some cell of the intersection
RunsOut(f, area, colors) ==
    \E i \in ClipCells(f, area) : ItemAt(f, area, i) >= Len(colors)

C12_ShortSequenceStops ==
    (call.op = "fill_contiguous" /\ RunsOut(fb, call.area, call.colors)) =>
        /\ call.res = "ok"
        /\ call.writes \subseteq ClipCells(fb, call.area)
        /\ \A i \in call.writes :
               /\ ItemAt(fb, call.area, i) < Len(call.colors)
               /\ storage[i] = ItemAt(fb, call.area, i) + 1
        /\ \A i \in DOMAIN storage \ call.writes : storage[i] = InitStorage[i]

\* the same where no range of the intersection runs from a negative
\* coordinate to 0 or beyond; there the cells written are exactly the cells
\* the sequence has an item for
C12_ClearShortSequenceStops ==
    (/\ call.op = "fill_contiguous"
     /\ RunsOut(fb, call.area, call.colors)
     /\ IntersectionClear(fb, call.area)) =>
        /\ call.res = "ok"
        /\ call.it = Len(call.colors)
        /\ call.writes = {i \in ClipCells(fb, call.area) :
                              ItemAt(fb, call.area, i) < Len(call.colors)}
        /\ \A i \in call.writes : storage[i] = ItemAt(fb, call.area, i) + 1
        /\ \A i \in DOMAIN storage \ call.writes : storage[i] = InitStorage[i]

(***************************************************************************)
(* C13.  clear(C) sets exactly the first size.width * size.height cells of *)
(* the backing storage to C, whatever the buffer's position; cells at      *)
(* indices >= len are unchanged.                                           *)
(***************************************************************************)
C13_ClearFillsFirstLen ==
    [][call'.op = "clear" =>
           /\ call'.res = "ok"
           /\ DOMAIN storage' = DOMAIN storage
           /\ \A i \in DOMAIN storage :
                  storage'[i] = IF i < fb.size.width * fb.size.height
                                THEN call'.color ELSE storage[i]
           /\ fb.len = fb.size.width * fb.size.height
           /\ fb' = fb]_vars

\* a buffer at a negative position that covers part of its slice is cleared
C13_Witness ==
    /\ call.op = "clear" /\ call.res = "ok"
    /\ fb.position.x < 0 /\ fb.position.y < 0
    /\ fb.len > 0 /\ fb.len < SliceLen(storage)
    /\ \A i \in DOMAIN storage :
           storage[i] = IF i < fb.len THEN call.color ELSE InitStorage[i]

(***************************************************************************)
(* C14.  clear is idempotent: clear(C) called twice in a row leaves the    *)
(* backing storage as one clear(C) leaves it.                              *)
(***************************************************************************)
C14_ClearIdempotent ==
    [][(call'.op = "clear" /\ call'.again) => storage' = storage]_vars

\* the second of two clears with the same colour, on cells that held
\* another colour before the first
C14_Witness ==
    /\ call.op = "clear" /\ call.again
    /\ fb.len > 0
    /\ \A i \in 0..(fb.len - 1) : storage[i] = call.color /\ InitStorage[i] # call.color

(***************************************************************************)
(* C15.  draw_iter given a point that is not contained in the buffer's     *)
(* bounding box (one column right of the last column, say, or one column   *)
(* left of the first on a row other than the first) modifies no cell of    *)
(* the backing storage.                                                    *)
(***************************************************************************)
InBoundingBox(f, point) == InRect(point.x, point.y, Rectangle(f.position, f.size))

C15_OutsidePointsDiscarded ==
    call.op = "draw_iter" =>
        /\ \A k \in DOMAIN call.log :
               ~InBoundingBox(fb, call.pixels[k].point) => call.log[k].kind # "write"
        /\ (\A k \in DOMAIN call.pixels : ~InBoundingBox(fb, call.pixels[k].point))
               => Changed = {}

\* what holds: a point above or below the rows of the buffer, in one of its
\* columns, is discarded (coordinates not extreme)
C15_OutsideRowsDiscarded ==
    (call.op = "draw_iter" /\ NearPixels) =>
        \A k \in DOMAIN call.log :
            LET pt == call.pixels[k].point IN
            (/\ pt.x >= fb.position.x /\ pt.x < fb.position.x + fb.size.width
             /\ (pt.y < fb.position.y \/ pt.y >= fb.position.y + fb.size.height))
            => call.log[k].kind = "skip"

(***************************************************************************)
(* C16.  For a point (x, y) inside the bounding box, draw_iter overwrites  *)
(* exactly the backing cell at index                                       *)
(* (y - position.y) * width + (x - position.x) with the pixel's colour and *)
(* changes no other cell.  (Pixel k of the sequence has colour k.)         *)
(***************************************************************************)
LocalIndex(f, point) ==
    (point.y - f.position.y) * f.size.width + (point.x - f.position.x)

\* the pixels of the sequence that address cell i
PixelsAt(f, pixels, i) ==
    {k \in DOMAIN pixels : LocalIndex(f, pixels[k].point) = i}

C16_InsidePointsWritten ==
    (/\ call.op = "draw_iter"
     /\ \A k \in DOMAIN call.pixels : InBoundingBox(fb, call.pixels[k].point))
    => /\ call.res = "ok"
       /\ Len(call.log) = Len(call.pixels)
       /\ \A k \in DOMAIN call.pixels :
              call.log[k] = [kind |-> "write",
                             idx |-> LocalIndex(fb, call.pixels[k].point)]
       /\ \A i \in DOMAIN storage :
              LET ks == PixelsAt(fb, call.pixels, i) IN
              storage[i] = IF ks = {} THEN InitStorage[i]
                           ELSE CHOOSE k \in ks : \A j \in ks : j <= k

\* a pixel on the second row of a buffer two columns wide, at a negative
\* position: one cell holds its colour, the others what they held
C16_Witness ==
    /\ call.op = "draw_iter" /\ call.res = "ok"
    /\ Len(call.pixels) >= 1
    /\ \A k \in DOMAIN call.pixels : InBoundingBox(fb, call.pixels[k].point)
    /\ fb.size.width = 2 /\ fb.position.x < 0
    /\ call.pixels[1].point.y > fb.position.y
    /\ Changed = {LocalIndex(fb, call.pixels[1].point)}

(***************************************************************************)
(* C17.  Drawing operations are infallible and total: for every buffer and *)
(* every argument, draw_iter, fill_contiguous, fill_solid and clear        *)
(* complete with success, never abort, and never index the backing storage *)
(* outside [0, len).                                                       *)
(***************************************************************************)
DrawOps == {"draw_iter", "fill_contiguous", "fill_solid", "clear"}

C17_DrawingIsTotal ==
    call.op \in DrawOps =>
        /\ call.res = "ok"
        /\ call.writes \subseteq 0..(fb.len - 1)

\* the part that holds: no call writes a cell at or beyond len
C17_WritesBelowLen ==
    call.op \in DrawOps => call.writes \subseteq 0..(fb.len - 1)

\* clear and a fill that meets no negative coordinate end with success
C17_ClearAreaIsTotal ==
    /\ call.op = "clear" => call.res = "ok"
    /\ (call.op \in {"fill_contiguous", "fill_solid"} /\ DrawableClear(fb, call.area))
           => call.res = "ok"

(***************************************************************************)
(* C18.  Drawing a buffer A into a destination issues one fill_contiguous  *)
(* call with rectangle (A.position, A.size) and A's contents in row-major  *)
(* order; when the destination is another buffer B, afterwards every cell  *)
(* of B inside intersection(A.bounding_box, B.bounding_box) equals A's     *)
(* cell at the same parent coordinate, all other cells of B are unchanged, *)
(* and A is unchanged.                                                     *)
(***************************************************************************)
\* the cell of the drawn buffer a (over cells) at parent coordinate (x, y)
SourceCellAt(a, cells, x, y) ==
    cells[(y - a.position.y) * a.size.width + (x - a.position.x)]

\* the call made: the rectangle is A's bounding box and the sequence starts
\* with A's len cells in row-major order
DrawCallShape ==
    /\ call.area = bounding_box(call.src)
    /\ Len(call.colors) >= call.src.len
    /\ \A i \in 0..(call.src.len - 1) : call.colors[i + 1] = call.cells[i]

\* B afterwards: the intersection holds A's cells, the rest is untouched
DrawCopied ==
    /\ call.res = "ok"
    /\ \A i \in ClipCells(fb, call.area) :
           storage[i] = SourceCellAt(call.src, call.cells,
                                     CellX(fb, i), CellY(fb, i))
    /\ \A i \in DOMAIN storage :
           i \notin ClipCells(fb, call.area) => storage[i] = InitStorage[i]

C18_DrawCopiesIntersection ==
    call.op = "draw" => DrawCallShape /\ DrawCopied

\* the same where no range of the drawable area runs from a negative
\* coordinate to 0 or beyond
C18_ClearDrawCopiesIntersection ==
    (call.op = "draw" /\ DrawableClear(fb, call.area)) => DrawCallShape /\ DrawCopied

\* the sequence handed over is the whole backing slice, which may be longer
\* than A's len cells
C18_SequenceIsWholeSlice ==
    call.op = "draw" => Len(call.colors) = SliceLen(call.cells)

(***************************************************************************)
(* C19.  nxt() returns the cell at the current cursor and then increments  *)
(* the cursor by exactly one; immediately after a nxt() call, current()    *)
(* returns that same cell (index cursor-1), and after two consecutive      *)
(* nxt() calls prev() returns the cell handed out by the first of them     *)
(* (index cursor-2).  current() and prev() do not move the cursor.         *)
(***************************************************************************)
\* the call before this step was a nxt() that handed out a cell
AfterNxt == last.op = "nxt" /\ last.res = "ok"

\* nxt() with the cursor inside the array
NxtStep ==
    (last'.op = "nxt" /\ pos < N) =>
        /\ last'.res = "ok"
        /\ handle' = pos
        /\ pos' = pos + 1
        /\ states' = states

\* current() right after a nxt(): handle is the cell that nxt() handed out
CurrentAfterNxt ==
    (AfterNxt /\ last'.op = "current") =>
        /\ last'.res = "ok"
        /\ handle' = handle
        /\ handle' = pos - 1

\* prev() right after the second of two nxt() calls: the second handed out
\* the cell of index handle, the first the one before it
PrevAfterTwoNxt ==
    (AfterNxt /\ last.at >= 1 /\ last'.op = "prev") =>
        /\ last'.res = "ok"
        /\ handle' = handle - 1
        /\ handle' = pos - 2

\* neither moves the cursor nor touches a cell
CursorStays ==
    last'.op \in {"current", "prev"} => pos' = pos /\ states' = states

C19_NxtCurrentPrev ==
    [][NxtStep /\ CurrentAfterNxt /\ PrevAfterTwoNxt /\ CursorStays]_vars

\* nxt(), nxt(), prev(): the cursor is 2 and prev() handed out cell 0
C19_Witness ==
    /\ last.op = "prev" /\ last.res = "ok"
    /\ last.at = 2 /\ pos = 2
    /\ handle = 0

(***************************************************************************)
(* C20.  peek(), get_relative(offset) and get(pos) never change the        *)
(* cursor; get_relative(offset) returns the cell at index cursor+offset,   *)
(* so get_relative(0) is the cell peek() returns, get_relative(-1) the     *)
(* cell current() returns and get_relative(-2) the cell prev() returns;    *)
(* get(pos) returns the cell at index pos whatever the cursor is; each of  *)
(* them aborts when its index is outside [0, N) (including peek() at       *)
(* cursor = N and get_relative with cursor+offset < 0).                    *)
(***************************************************************************)
SeekOps == {"peek", "get_relative", "get"}

\* the cursor the call started from is one AsI32 keeps (below 2^31); a
\* negative value stands for a cursor of 2^W + at
CursorSmall == last.at >= 0

\* the index the call is to look up lies in [0, N), in exact arithmetic
SeekInArray ==
    CASE last.op = "peek" -> CursorSmall /\ last.at < N
      [] last.op = "get_relative" ->
             CursorSmall /\ last.arg >= -last.at /\ last.arg < N - last.at
      [] last.op = "get" -> last.arg >= 0 /\ last.arg < N

\* that index, where it lies in [0, N)
SeekIndex ==
    CASE last.op = "peek" -> last.at
      [] last.op = "get_relative" -> last.at + last.arg
      [] last.op = "get" -> last.arg

SeekDone ==
    /\ pos = last.at
    /\ IF SeekInArray THEN last.res = "ok" /\ handle = SeekIndex
       ELSE last.res = "panic" /\ handle = NoHandle

\* get_relative(0), (-1) and (-2) do what peek(), current() and prev() do
RelativeAgrees ==
    /\ get_relative(Provider, 0, overflow_checks) = peek(Provider)
    /\ get_relative(Provider, 0 - 1, overflow_checks) = current(Provider, overflow_checks)
    /\ get_relative(Provider, 0 - 2, overflow_checks) = prev(Provider, overflow_checks)

C20_SeeksByIndex ==
    /\ last.op \in SeekOps => SeekDone
    /\ RelativeAgrees

\* the same for the calls made with a cursor below 2^31
C20_SmallCursorSeeksByIndex ==
    /\ (last.op \in SeekOps /\ CursorSmall) => SeekDone
    /\ RelativeAgrees

(***************************************************************************)
(* C22.  force_redraw on a cell sets valid to false and leaves its id      *)
(* unchanged; afterwards is_empty() is true, is_state(x) is false for      *)
(* every x (the stored id included), and the cell compares unequal to      *)
(* every cell until set_state(id) or assignment of state(id) makes it      *)
(* valid again, after which is_state(id) is true.                          *)
(***************************************************************************)
\* what an invalid cell answers
ReportsInvalid(c) ==
    /\ is_empty(c)
    /\ \A x \in StateIds : ~is_state(c, x)
    /\ \A o \in SmartstateValues : ~eq(c, o) /\ ~eq(o, c)
    /\ ~eq(c, c)

Validating == {"set_state", "assign_state"}

C22_ForceRedrawInvalidates ==
    [][/\ last'.op = "force_redraw" =>
              /\ states'[handle] = Smartstate(states[handle].id, FALSE)
              /\ ReportsInvalid(states'[handle])
       /\ \A i \in DOMAIN states :
              ~states[i].valid =>
                  /\ ReportsInvalid(states[i])
                  /\ states'[i].valid => last'.op \in Validating /\ handle = i
       /\ last'.op \in Validating =>
              /\ is_state(states'[handle], last'.arg)
              /\ ~is_empty(states'[handle])
              /\ \A x \in StateIds : is_state(states'[handle], x) <=> x = last'.arg]_vars

\* a cell that held state(1) has been invalidated through its borrow
C22_Witness ==
    /\ last.op = "force_redraw"
    /\ states[handle] = Smartstate(1, FALSE)

(***************************************************************************)
(* C23.  Range invalidation marks invalid exactly the addressed cells and  *)
(* nothing else: force_redraw_from(p) invalidates the cells with index in  *)
(* [p, N), force_redraw_range(r) the indices in r, force_redraw_remaining  *)
(* the indices in [cursor, N); cells outside the range keep their          *)
(* validity, all ids and the cursor are unchanged; force_redraw_from(0)    *)
(* has the same effect as force_redraw_all and force_redraw_from_offset(0) *)
(* the same effect as force_redraw_remaining.                              *)
(***************************************************************************)
\* this step invalidated the cells lo .. hi-1 and did nothing else
InvalidatedExactly(lo, hi) ==
    /\ last'.res = "ok"
    /\ pos' = pos
    /\ DOMAIN states' = DOMAIN states
    /\ \A i \in DOMAIN states :
           states'[i] = IF lo <= i /\ i < hi THEN Smartstate(states[i].id, FALSE)
                        ELSE states[i]

C23_RangeInvalidation ==
    [][/\ last'.op = "force_redraw_from" => InvalidatedExactly(last'.arg, N)
       /\ last'.op = "force_redraw_range" =>
              InvalidatedExactly(last'.arg[1], last'.arg[2])
       /\ last'.op = "force_redraw_remaining" => InvalidatedExactly(pos, N)
       /\ last'.op = "force_redraw_all" =>
              force_redraw_from(Provider, 0) = force_redraw_all(Provider)
       /\ last'.op = "force_redraw_remaining" =>
              force_redraw_from_offset(Provider, 0, overflow_checks)
                  = force_redraw_remaining(Provider, overflow_checks)
       /\ (last'.op = "force_redraw_from_offset" /\ last'.arg = 0) =>
              InvalidatedExactly(pos, N)]_vars

\* force_redraw_remaining at cursor 1: cell 0 is still valid, cell 1 is
\* invalid and keeps its id
C23_Witness ==
    /\ last.op = "force_redraw_remaining"
    /\ last.at = 1
    /\ states[0] = state(0)
    /\ states[1] = Smartstate(1, FALSE)

(***************************************************************************)
(* C24.  The container keeps a no-op contract when disabled: on an empty   *)
(* Container modify() runs no modification and changes nothing,            *)
(* clone_inner() returns None and eq_inner(x) is false for every x;        *)
(* eq_option follows the documented table (Some/Some compares the inner    *)
(* values, every combination involving None is false), so with Smartstates *)
(* it is true only when the container holds a valid cell and the option    *)
(* holds a valid cell with the same id.                                    *)
(***************************************************************************)
Disabled == handle = NoHandle

C24_ContainerContract ==
    [][/\ last'.op = "modify" =>
              /\ handle' = handle /\ pos' = pos
              /\ IF Disabled THEN ~last'.out /\ states' = states
                 ELSE /\ last'.out
                      /\ states' = [states EXCEPT ![handle] = Apply(last'.arg, states[handle])]
       /\ last'.op = "clone_inner" =>
              last'.out = IF Disabled THEN None ELSE Some(states[handle])
       /\ last'.op = "eq_inner" =>
              (last'.out <=> (~Disabled /\ eq(states[handle], last'.arg)))
       /\ last'.op = "eq_option" =>
              (last'.out <=> /\ ~Disabled
                             /\ last'.arg.some
                             /\ states[handle].valid
                             /\ last'.arg.v.valid
                             /\ states[handle].id = last'.arg.v.id)
       /\ last'.op \in {"clone_inner", "eq_inner", "eq_option"} =>
              states' = states /\ handle' = handle /\ pos' = pos]_vars

\* an empty container compared with None, with cells that are not all empty
C24_Witness ==
    /\ last.op = "eq_option"
    /\ Disabled
    /\ last.arg = None
    /\ ~last.out
    /\ \E i \in DOMAIN states : states[i].valid

(***************************************************************************)
(* C28.  force_redraw_from_offset(offset) has the same effect as           *)
(* force_redraw_from(cursor + offset) for every signed offset: it marks    *)
(* invalid every cell whose index i satisfies cursor + offset <= i < N     *)
(* (all N cells when cursor + offset <= 0, none when cursor + offset >= N) *)
(* and never silently leaves a cell in that range valid.                   *)
(***************************************************************************)
\* this step invalidated the cells from cursor + offset on and nothing else
InvalidatedFromSum ==
    /\ last'.res = "ok"
    /\ pos' = pos
    /\ \A i \in DOMAIN states :
           states'[i] = IF pos + last'.arg <= i THEN Smartstate(states[i].id, FALSE)
                        ELSE states[i]

C28_FromOffsetInvalidatesFromSum ==
    [][last'.op = "force_redraw_from_offset" => InvalidatedFromSum]_vars

\* the same for the calls whose cursor + offset is not negative
C28_FromOffsetNotBelowZero ==
    [][(last'.op = "force_redraw_from_offset" /\ pos + last'.arg >= 0)
           => InvalidatedFromSum]_vars

\* a call whose cursor + offset is negative returns and changes nothing
C28_FromOffsetBelowZeroIsNoOp ==
    [][(last'.op = "force_redraw_from_offset" /\ pos + last'.arg < 0)
           => last'.res = "ok" /\ states' = states /\ pos' = pos]_vars

(***************************************************************************)
(* C29.  A failing access leaves the provider unchanged at the point of    *)
(* the abort: nxt() with cursor >= N aborts before the cursor is           *)
(* incremented, and a failing current(), prev(), peek(), get_relative() or *)
(* get() modifies neither the cursor nor any cell.                         *)
(***************************************************************************)
CellAccessors == {"nxt", "current", "prev", "peek", "get_relative", "get"}

C29_FailedAccessChangesNothing ==
    [][/\ (last'.op = "nxt" /\ pos >= N) => last'.res = "panic"
       /\ (last'.op \in CellAccessors /\ last'.res = "panic") =>
              /\ pos' = pos
              /\ states' = states
              /\ handle' = NoHandle]_vars

\* nxt() has aborted at cursor N with a cell that is not empty
C29_Witness ==
    /\ last.op = "nxt"
    /\ last.res = "panic"
    /\ pos = N
    /\ \E i \in DOMAIN states : states[i] = state(1)

(***************************************************************************)
(* C21.  skip(n) advances the cursor by exactly n and changes no cell, so  *)
(* slots stay stable across frames: if every frame starts with             *)
(* restart_counter and performs the same sequence of nxt() and skip(n)     *)
(* calls, then the k-th nxt() call of every frame returns the cell at the  *)
(* same index.                                                             *)
(***************************************************************************)
\* the nxt() and skip(n) calls the widgets 1..k of a frame made, in order
RECURSIVE CallsOf(_, _)
CallsOf(fr, k) ==
    IF k = 0 THEN << >>
    ELSE IF fr[k].mode \in {"draw", "skip"}
         THEN Append(CallsOf(fr, k - 1), <<fr[k].mode, fr[k].n>>)
         ELSE CallsOf(fr, k - 1)

\* the indices the nxt() calls of the widgets 1..k of a frame handed out
RECURSIVE SlotsOf(_, _)
SlotsOf(fr, k) ==
    IF k = 0 THEN << >>
    ELSE IF fr[k].mode = "draw" THEN Append(SlotsOf(fr, k - 1), fr[k].slot)
         ELSE SlotsOf(fr, k - 1)

IsPrefix(a, b) == Len(a) <= Len(b) /\ \A k \in 1..Len(a) : a[k] = b[k]

\* so far this frame has made the calls the frame before it made
SameCallsSoFar ==
    /\ ui.frame >= 2
    /\ IsPrefix(CallsOf(ui.cur, MaxWidgets), CallsOf(ui.prv, MaxWidgets))

SlotsStable ==
    SameCallsSoFar => IsPrefix(SlotsOf(ui.cur, MaxWidgets), SlotsOf(ui.prv, MaxWidgets))

SkipAdvances ==
    (last'.op = "skip" /\ last'.res = "ok") =>
        /\ pos' = pos + last'.arg
        /\ states' = states

C21_SkipKeepsSlotsStable == []SlotsStable /\ [][SkipAdvances]_vars

\* the second frame: its first widget has skipped one slot as in the frame
\* before, and its second widget has been handed slot 1 again
C21_Witness ==
    /\ ui.frame = 2
    /\ SameCallsSoFar
    /\ ui.cur[1].mode = "skip" /\ ui.cur[1].n = 1
    /\ ui.cur[2].mode = "draw" /\ ui.cur[2].slot = 1
    /\ ui.prv[2].slot = 1

(***************************************************************************)
(* C25.  Redraw decision across frames, for a widget that each frame       *)
(* snapshots its slot, records its chosen id and compares the new cell     *)
(* with the snapshot: in the first frame on a freshly constructed provider *)
(* (all N cells empty) every widget's comparison reports "changed"; in a   *)
(* later frame the comparison reports "unchanged" if and only if the       *)
(* widget recorded the same id in the previous frame and its slot was not  *)
(* invalidated in between.                                                 *)
(***************************************************************************)
\* this step is a draw of the widget whose turn it is
DrawStep == last'.op = "draw" /\ last'.res = "ok"

\* that widget drew in the frame before, on the slot it is handed now, and
\* no other widget has written the slot since
TrackedSlot ==
    /\ ui.frame >= 2
    /\ ui.prv[ui.w].mode = "draw"
    /\ ui.prv[ui.w].slot = last'.slot
    /\ ui.owner[last'.slot] = ui.w

Invalidated == ui.invAt # NoHandle

OneAbsentBefore ==
    /\ ui.frame >= 2
    /\ ui.w >= 2
    /\ \A k \in Widgets : ui.prv[k].mode = "draw"
    /\ \E a \in 1..(ui.w - 1) :
           /\ ui.cur[a].mode = "absent"
           /\ \A k \in 1..(ui.w - 1) : k # a => ui.cur[k].mode = "draw"

C27_DesyncUndetected ==
    [][(last'.op = "draw" /\ OneAbsentBefore) =>
           /\ last'.res = "ok"
           /\ last'.slot = ui.prv[ui.w - 1].slot
           /\ ui.owner[last'.slot] = ui.w - 1
           /\ (last'.out <=> /\ ui.prv[ui.w - 1].id = last'.arg
                              /\ ~ui.inval[last'.slot])]_vars

\* frame B: the first widget is absent, the second is handed slot 0 and
\* reports "unchanged" against what the first widget recorded in frame A,
\* although it recorded another id itself in frame A
C27_Witness ==
    /\ last.op = "draw" /\ last.res = "ok"
    /\ ui.frame >= 2
    /\ \A k \in Widgets : ui.prv[k].mode = "draw"
    /\ ui.cur[1].mode = "absent"
    /\ last.w = 2 /\ last.slot = 0 /\ last.by = 1
    /\ ui.prv[2].id # last.arg
    /\ last.out

====
